---- MODULE Spec2Model ----
(***************************************************************************)
(* Model of the two command-line utilities under donut/scripts:            *)
(*   mat_to_gltf.py  the material merger   (specification SpecMerge)       *)
(*   lz4_tar.py      the tar/LZ4 archiver  (specification SpecTar,         *)
(*                   and SpecNorm for normalize_path alone)                *)
(*                                                                         *)
(* Conventions.  A Python value that may be None, and a dict key that may  *)
(* be absent, is a sequence of length at most one: <<>> is None/absent and *)
(* <<v>> is the value v.  List indices are Python's (0-based).  A path of  *)
(* the merger is a record [stem, ext]; a path of the archiver is a         *)
(* sequence of one-character strings.  An uncaught Python exception ends   *)
(* the process: pc becomes "aborted" and error names the exception.        *)
(***************************************************************************)
EXTENDS Integers, Sequences, FiniteSets, TLC

VARIABLES
    \* ---- material merger (mat_to_gltf.py) ----
    matfile,          \* the material-definitions document on disk
    mat,              \* the loaded definitions dict (its lists are mutable)
    materials,        \* gltf["materials"] of the input scene: node names
    exists,           \* the texture files present on disk
    spec_gloss,       \* args.spec_gloss
    images,           \* the image list: URIs
    textures,         \* the texture list: [source, dds]
    anyDdsTextures,   \* the global flag
    newmatlist,       \* the rebuilt material list
    diffuseFactor,    \* the script-level variable diffuseFactor: <<>> while
                      \* unbound, else <<n>>: the list object mat[n].Diffuse
    calls,            \* history: every add_texture call and how it ended
    out,              \* the written output document: <<>> or <<doc>>
    mpos,             \* index (1-based) of the next scene material
    mpc,              \* "running" | "done" | "aborted"
    merror,           \* the exception that ended the run, "" if none
    \* ---- archiver (lz4_tar.py) ----
    inputs,           \* args.inputs
    compress,         \* args.compress
    prefix,           \* args.prefix
    no_compress,      \* args.no_compress
    readable,         \* the files of the file system that open() can read
    fsize,            \* the byte length of each file
    tar,              \* entries written to the archive: [name, size]
    original_size,    \* the global accumulators
    compressed_size,
    tpos,             \* index (1-based) of the next input
    tpc,              \* "running" | "exited"
    status,           \* the process exit status
    terror,           \* what ended the run abnormally, "" if nothing
    \* ---- normalize_path alone ----
    np_in,            \* the path given to normalize_path
    np_out            \* <<>>, <<f(p)>>, <<f(p), f(f(p))>>

mvars == <<matfile, mat, materials, exists, spec_gloss, images, textures,
           anyDdsTextures, newmatlist, diffuseFactor, calls, out, mpos, mpc,
           merror>>
tvars == <<inputs, compress, prefix, no_compress, readable, fsize, tar,
           original_size, compressed_size, tpos, tpc, status, terror>>
nvars == <<np_in, np_out>>
vars == <<mvars, tvars, nvars>>

\* ---------------------------------------------------------------- bounds

\* The longest scene material list.
MaxNodes == 2
\* The longest command-line input list of the archiver.
MaxInputs == 2
\* The longest path handed to normalize_path alone.
MaxPathLen == 3

\* ------------------------------------------------------------- utilities

Last(s) == s[Len(s)]

RECURSIVE Gcd(_, _)
Gcd(a, b) == IF b = 0 THEN a ELSE Gcd(b, a % b)

\* A non-negative rational <<n, d>> in lowest terms.
Rat(n, d) == LET g == Gcd(n, d) IN <<n \div g, d \div g>>
RatAdd(x, y) == Rat(x[1] * y[2] + y[1] * x[2], x[2] * y[2])

\* =====================================================================
\*                     mat_to_gltf.py : the material merger
\* =====================================================================

\* path.lower(), on the extension (stems are kept in lower case).
LowerExt(e) == IF e = "DDS" THEN "dds" ELSE e

\* path.lower().endswith(".dds")
IsDds(path) == LowerExt(path.ext) = "dds"

\* path[:-4] + ".png", path[:-4] + ".jpg"
WithExt(path, e) == [stem |-> path.stem, ext |-> e]

\* Index (0-based) of the first element of s equal to x; Len(s) if none.
RECURSIVE FirstIndex(_, _, _)
FirstIndex(s, x, i) ==
    IF i > Len(s) THEN Len(s)
    ELSE IF s[i] = x THEN i - 1
    ELSE FirstIndex(s, x, i + 1)

\* add_image: the index of the image with this URI, appended if new.
ImageAt(imgs, path, imageIndex) ==
    [images     |-> IF imageIndex = Len(imgs) THEN Append(imgs, path) ELSE imgs,
     imageIndex |-> imageIndex]

add_image(imgs, path) == ImageAt(imgs, path, FirstIndex(imgs, path, 1))

\* Mutant of ScanTextures: the loop never returns an existing index, so
\* every call appends an entry.
ScanTexturesNoMatch(texs, regularImage, ddsImage, i) ==
    [kind |-> "notfound", textureIndex |-> Len(texs)]

\* The loop of add_texture over the texture list.  texture["source"] is read
\* first and raises KeyError on an entry that has no such key; the DDS test
\* is made only on an entry that has "extensions".
RECURSIVE ScanTextures(_, _, _, _)
ScanTextures(texs, regularImage, ddsImage, i) ==
    IF i > Len(texs) THEN [kind |-> "notfound", textureIndex |-> Len(texs)]
    ELSE IF texs[i].source = <<>> THEN [kind |-> "KeyError", textureIndex |-> i - 1]
    ELSE IF texs[i].source = regularImage
            \/ (texs[i].dds # <<>> /\ texs[i].dds = ddsImage)
         THEN [kind |-> "found", textureIndex |-> i - 1]
    ELSE ScanTextures(texs, regularImage, ddsImage, i + 1)

\* The companion of a DDS path: the PNG if it is on disk, else the JPEG if it
\* is on disk, else None (with a warning).
Registered(r) == [images |-> r.images, regularImage |-> <<r.imageIndex>>]

Companion(imgs, path) ==
    IF WithExt(path, "png") \in exists
    THEN Registered(add_image(imgs, WithExt(path, "png")))
    ELSE IF WithExt(path, "jpg") \in exists
    THEN Registered(add_image(imgs, WithExt(path, "jpg")))
    ELSE [images |-> imgs, regularImage |-> <<>>]

DdsImages(regularImage, dds) ==
    [images |-> dds.images, regularImage |-> regularImage,
     ddsImage |-> <<dds.imageIndex>>, anyDds |-> TRUE]

WithDds(comp, path) == DdsImages(comp.regularImage, add_image(comp.images, path))

RegularImages(reg) ==
    [images |-> reg.images, regularImage |-> <<reg.imageIndex>>,
     ddsImage |-> <<>>, anyDds |-> FALSE]

\* The images add_texture registers for a path, and the two image indices.
ResolveImages(imgs, path) ==
    IF IsDds(path)
    THEN WithDds(Companion(imgs, path), path)
    ELSE RegularImages(add_image(imgs, path))

\* The end of add_texture, given the images r and the outcome of the loop.
TextureAt(reg, r, scan) ==
    [images |-> r.images,
     textures |-> IF scan.kind = "notfound"
                  THEN Append(reg.textures,
                              [source |-> r.regularImage, dds |-> r.ddsImage])
                  ELSE reg.textures,
     anyDdsTextures |-> reg.anyDdsTextures \/ r.anyDds,
     index |-> IF scan.kind = "KeyError" THEN <<>> ELSE <<scan.textureIndex>>,
     err |-> IF scan.kind = "KeyError" THEN "KeyError" ELSE ""]

TextureOf(reg, r) ==
    TextureAt(reg, r, ScanTextures(reg.textures, r.regularImage, r.ddsImage, 1))

\* add_texture on the registry reg = [images, textures, anyDdsTextures]:
\* the registry after the call, the index returned (<<>> if the call raised)
\* and the exception raised ("" if none).
add_texture(reg, path) == TextureOf(reg, ResolveImages(reg.images, path))

\* The state after a call of add_texture: the registry, the call history,
\* the exception, and the texture indices of the slots so far.
Called(c, path, r) ==
    [images |-> r.images, textures |-> r.textures,
     anyDdsTextures |-> r.anyDdsTextures,
     calls |-> Append(c.calls,
                      [path |-> path, index |-> r.index, err |-> r.err,
                       appended |-> Len(r.textures) > Len(c.textures)]),
     err |-> r.err, indices |-> Append(c.indices, r.index)]

\* One texture slot of the material loop: "if <slot path>: add_texture(...)".
\* Nothing runs after an exception.
TexCall(c, slot) ==
    IF c.err # "" \/ slot = <<>>
    THEN [c EXCEPT !.indices = Append(c.indices, <<>>)]
    ELSE Called(c, slot[1], add_texture(c, slot[1]))

\* any(emittance) and len(emittance) == 3
EmissiveSet(e) == (\E i \in 1..Len(e) : e[i] # 0) /\ Len(e) = 3

\* The metallic factor loop: sum over the three channels of
\* specularFactor[i] / (specularFactor[i] + diffuseFactor[i]), then / 3.0.
\* <<>> when a channel divides by zero (ZeroDivisionError).
RECURSIVE MetallicSum(_, _, _, _)
MetallicSum(S, D, i, acc) ==
    IF i > 3 THEN <<acc>>
    ELSE IF S[i] + D[i] = 0 THEN <<>>
    ELSE MetallicSum(S, D, i + 1, RatAdd(acc, Rat(S[i], S[i] + D[i])))

MetallicDiv3(sum) ==
    IF sum = <<>> THEN [value |-> <<>>, err |-> "ZeroDivisionError"]
    ELSE [value |-> <<Rat(sum[1][1], sum[1][2] * 3)>>, err |-> ""]

MetallicOf(S, D) == MetallicDiv3(MetallicSum(S, D, 1, <<0, 1>>))

\* 1.0 - x for a rational x
OneMinus(x) == Rat(x[2] - x[1], x[2])

\* ---- the inputs of a run ------------------------------------------------

Names == {"M1", "M2"}

P(stem, ext) == [stem |-> stem, ext |-> ext]

\* The "Textures" mappings of a definition (<<>>: the slot is not given).
TexMaps ==
    { [Emittance |-> <<>>, Bumpmap |-> <<>>, Diffuse |-> <<>>, Specular |-> <<>>],
      [Emittance |-> <<>>, Bumpmap |-> <<>>, Diffuse |-> <<P("a", "dds")>>, Specular |-> <<>>],
      [Emittance |-> <<>>, Bumpmap |-> <<>>, Diffuse |-> <<P("a", "png")>>, Specular |-> <<>>],
      [Emittance |-> <<>>, Bumpmap |-> <<>>, Diffuse |-> <<>>, Specular |-> <<P("b", "DDS")>>],
      [Emittance |-> <<>>, Bumpmap |-> <<>>, Diffuse |-> <<P("a", "dds")>>,
       Specular |-> <<P("b", "DDS")>>],
      [Emittance |-> <<P("b", "DDS")>>, Bumpmap |-> <<P("a", "png")>>, Diffuse |-> <<>>,
       Specular |-> <<>>] }

\* The scalar and colour fields of a definition.  Shininess is a rational.
Shadings ==
    { [AlphaTested |-> TRUE, Transparent |-> FALSE, Emittance |-> <<>>,
       Diffuse |-> <<1, 0, 0>>, Specular |-> <<0, 0, 0>>, Shininess |-> <<1, 2>>,
       Opacity |-> <<>>],
      [AlphaTested |-> FALSE, Transparent |-> TRUE, Emittance |-> <<1, 0, 0>>,
       Diffuse |-> <<1, 1, 1>>, Specular |-> <<1, 1, 1>>, Shininess |-> <<1, 2>>,
       Opacity |-> <<0>>],
      [AlphaTested |-> FALSE, Transparent |-> FALSE, Emittance |-> <<0, 0, 0>>,
       Diffuse |-> <<3, 1, 0>>, Specular |-> <<1, 1, 1>>, Shininess |-> <<1, 4>>,
       Opacity |-> <<>>],
      [AlphaTested |-> FALSE, Transparent |-> FALSE, Emittance |-> <<1, 0>>,
       Diffuse |-> <<1, 1, 1, 1>>, Specular |-> <<1, 1>>, Shininess |-> <<1, 1>>,
       Opacity |-> <<>>] }

MkDef(sh, tx) ==
    [AlphaTested |-> sh.AlphaTested, Transparent |-> sh.Transparent,
     Emittance |-> sh.Emittance, Textures |-> tx, Diffuse |-> sh.Diffuse,
     Specular |-> sh.Specular, Shininess |-> sh.Shininess, Opacity |-> sh.Opacity]

DefSet == { MkDef(sh, tx) : sh \in Shadings, tx \in TexMaps }

\* The companion files that may be on disk.
Companions == { P("a", "png"), P("b", "jpg") }

SeqsUpTo(S, n) == UNION { [1..k -> S] : k \in 1..n }

IdleTar ==
    /\ inputs = <<>> /\ compress = 0 /\ prefix = <<>> /\ no_compress = {}
    /\ readable = {} /\ fsize = <<>> /\ tar = <<>> /\ original_size = 0
    /\ compressed_size = 0 /\ tpos = 1 /\ tpc = "exited" /\ status = 0
    /\ terror = ""

IdleNorm == np_in = <<>> /\ np_out = <<>>

InitMerge ==
    /\ IdleTar
    /\ IdleNorm
    /\ \E D \in SUBSET Names : matfile \in [D -> DefSet]
    /\ mat = matfile
    /\ materials \in SeqsUpTo(Names, MaxNodes)
    /\ exists \in SUBSET Companions
    /\ spec_gloss \in BOOLEAN
    /\ images = <<>>
    /\ textures = <<>>
    /\ anyDdsTextures = FALSE
    /\ newmatlist = <<>>
    /\ diffuseFactor = <<>>
    /\ calls = <<>>
    /\ out = <<>>
    /\ mpos = 1
    /\ mpc = "running"
    /\ merror = ""

IdleMerge ==
    /\ matfile = <<>> /\ mat = <<>> /\ materials = <<>> /\ exists = {}
    /\ spec_gloss = FALSE /\ images = <<>> /\ textures = <<>>
    /\ anyDdsTextures = FALSE /\ newmatlist = <<>> /\ diffuseFactor = <<>>
    /\ calls = <<>> /\ out = <<>> /\ mpos = 1 /\ mpc = "done" /\ merror = ""

\* ---- the material loop --------------------------------------------------

\* texdefs.get(k) under "if texdefs:", which is false for an empty dict;
\* every slot is None then.
Slot(texdefs, k) ==
    IF \E j \in DOMAIN texdefs : texdefs[j] # <<>> THEN texdefs[k] ELSE <<>>

\* The four texture slots, in the order of the code.
TextureSlots(texdefs) ==
    TexCall(TexCall(TexCall(TexCall(
        [images |-> images, textures |-> textures,
         anyDdsTextures |-> anyDdsTextures, calls |-> calls,
         err |-> "", indices |-> <<>>],
        Slot(texdefs, "Emittance")), Slot(texdefs, "Bumpmap")),
        Slot(texdefs, "Diffuse")), Slot(texdefs, "Specular"))

\* "if not diffuseTexture:" binds diffuseFactor to the definition's own list
\* and, if that list has 3 components, appends the opacity to it in place.
DiffuseFallback(name, c) ==
    LET matdef   == mat[name]
        fallback == c.err = "" /\ Slot(matdef.Textures, "Diffuse") = <<>>
        opacity  == IF matdef.Opacity = <<>> THEN 1 ELSE matdef.Opacity[1]
        appended == Append(matdef.Diffuse, opacity)
    IN  IF fallback /\ Len(matdef.Diffuse) = 3
        THEN [mat |-> [mat EXCEPT ![name].Diffuse = appended],
              diffuseFactor |-> <<name>>, colorFactor |-> <<appended>>]
        ELSE [mat |-> mat,
              diffuseFactor |-> IF fallback THEN <<name>> ELSE diffuseFactor,
              colorFactor |-> <<>>]

\* "if not specularTexture:" in metallic-roughness mode, for a 3-component
\* specular colour: the metallic factor, or the exception.  diffuseFactor is
\* whatever the variable is bound to at that point.
Metallic(name, c, d) ==
    IF /\ c.err = ""
       /\ ~spec_gloss
       /\ Slot(mat[name].Textures, "Specular") = <<>>
       /\ Len(mat[name].Specular) = 3
    THEN IF d.diffuseFactor = <<>>
         THEN [value |-> <<>>, err |-> "NameError"]
         ELSE MetallicOf(mat[name].Specular, d.mat[d.diffuseFactor[1]].Diffuse)
    ELSE [value |-> <<>>, err |-> c.err]

\* The node as it stands in newmatlist and the state after the iteration (or
\* at the exception that ended it).
Assemble(name, c, d, m) ==
    LET matdef   == mat[name]
        specPart == c.err = "" /\ Slot(matdef.Textures, "Specular") = <<>>
        metalRough == [baseColorTexture         |-> c.indices[3],
                       metallicRoughnessTexture |-> c.indices[4],
                       baseColorFactor          |-> d.colorFactor,
                       metallicFactor           |-> m.value,
                       roughnessFactor          |-> IF specPart /\ m.err = ""
                                                    THEN <<OneMinus(matdef.Shininess)>>
                                                    ELSE <<>>]
        specGloss  == [diffuseTexture            |-> c.indices[3],
                       specularGlossinessTexture |-> c.indices[4],
                       diffuseFactor             |-> d.colorFactor,
                       specularFactor            |-> IF specPart /\ Len(matdef.Specular) = 3
                                                     THEN <<matdef.Specular>> ELSE <<>>,
                       glossinessFactor          |-> IF specPart THEN <<matdef.Shininess>>
                                                     ELSE <<>>]
        matnode == [name |-> name,
                    alphaMode |-> IF matdef.AlphaTested THEN <<"MASK">>
                                  ELSE IF matdef.Transparent THEN <<"BLEND">>
                                  ELSE <<"OPAQUE">>,
                    doubleSided |-> IF matdef.AlphaTested \/ matdef.Transparent
                                    THEN <<TRUE>> ELSE <<>>,
                    emissiveFactor |-> IF EmissiveSet(matdef.Emittance)
                                       THEN <<matdef.Emittance>> ELSE <<>>,
                    emissiveTexture |-> c.indices[1],
                    normalTexture |-> c.indices[2],
                    pbrMetallicRoughness |-> IF spec_gloss THEN <<>> ELSE <<metalRough>>,
                    KHR_materials_pbrSpecularGlossiness |->
                        IF spec_gloss THEN <<specGloss>> ELSE <<>>]
    IN  [mat |-> d.mat, images |-> c.images, textures |-> c.textures,
         anyDdsTextures |-> c.anyDdsTextures, calls |-> c.calls,
         diffuseFactor |-> d.diffuseFactor, matnode |-> matnode, err |-> m.err]

Shade(name, c, d) == Assemble(name, c, d, Metallic(name, c, d))

Textured(name, c) == Shade(name, c, DiffuseFallback(name, c))

\* The body of the material loop for a node whose name has a definition.
\* Division is Python 3's true division.
MergeNode(name) == Textured(name, TextureSlots(mat[name].Textures))

\* An iteration of the material loop for a node that has a definition.
ProcessMaterial ==
    /\ mpc = "running"
    /\ mpos <= Len(materials)
    /\ materials[mpos] \in DOMAIN mat
    /\ LET r == MergeNode(materials[mpos])
       IN  /\ mat' = r.mat
           /\ images' = r.images
           /\ textures' = r.textures
           /\ anyDdsTextures' = r.anyDdsTextures
           /\ calls' = r.calls
           /\ diffuseFactor' = r.diffuseFactor
           /\ newmatlist' = Append(newmatlist, r.matnode)
           /\ merror' = r.err
           /\ mpc' = IF r.err = "" THEN "running" ELSE "aborted"
           /\ mpos' = IF r.err = "" THEN mpos + 1 ELSE mpos
    /\ UNCHANGED <<matfile, materials, exists, spec_gloss, out, tvars, nvars>>

\* An iteration for a node whose name is not a key of the definitions: the
\* KeyError handler evaluates matnode.name on a dict, which raises
\* AttributeError before the node is appended.
MissingDefinition ==
    /\ mpc = "running"
    /\ mpos <= Len(materials)
    /\ materials[mpos] \notin DOMAIN mat
    /\ merror' = "AttributeError"
    /\ mpc' = "aborted"
    /\ UNCHANGED <<matfile, mat, materials, exists, spec_gloss, images, textures,
                   anyDdsTextures, newmatlist, diffuseFactor, calls, out, mpos,
                   tvars, nvars>>

\* After the loop: the material list is replaced, the extensions are declared
\* and the document is written.
Finalize ==
    /\ mpc = "running"
    /\ mpos > Len(materials)
    /\ out' = << [materials |-> newmatlist, textures |-> textures, images |-> images,
                  extensionsUsed |->
                      (IF spec_gloss THEN <<"KHR_materials_pbrSpecularGlossiness">>
                       ELSE <<>>)
                      \o (IF anyDdsTextures THEN <<"MSFT_texture_dds">> ELSE <<>>)] >>
    /\ mpc' = "done"
    /\ UNCHANGED <<matfile, mat, materials, exists, spec_gloss, images, textures,
                   anyDdsTextures, newmatlist, diffuseFactor, calls, mpos, merror,
                   tvars, nvars>>

NextMerge == ProcessMaterial \/ MissingDefinition \/ Finalize

SpecMerge == InitMerge /\ [][NextMerge]_vars

\* =====================================================================
\*                       lz4_tar.py : the archiver
\* =====================================================================
\* os.path is posixpath.  A path is a sequence of characters.

\* path.split('/'): the components from position i on, cur being the
\* component under way.
RECURSIVE SplitFrom(_, _, _)
SplitFrom(path, i, cur) ==
    IF i > Len(path) THEN <<cur>>
    ELSE IF path[i] = "/" THEN <<cur>> \o SplitFrom(path, i + 1, <<>>)
    ELSE SplitFrom(path, i + 1, Append(cur, path[i]))

\* '/'.join(comps)
RECURSIVE JoinFrom(_, _)
JoinFrom(comps, i) ==
    IF i > Len(comps) THEN <<>>
    ELSE IF i = Len(comps) THEN comps[i]
    ELSE comps[i] \o <<"/">> \o JoinFrom(comps, i + 1)

\* posixpath.normpath's count of leading slashes: 2 for exactly two, else 0 or 1.
InitialSlashes(path) ==
    IF Len(path) = 0 \/ path[1] # "/" THEN 0
    ELSE IF Len(path) >= 2 /\ path[2] = "/" /\ ~(Len(path) >= 3 /\ path[3] = "/") THEN 2
    ELSE 1

\* posixpath.normpath's loop over the components.
RECURSIVE NormComps(_, _, _, _)
NormComps(comps, i, initial_slashes, new_comps) ==
    IF i > Len(comps) THEN new_comps
    ELSE IF comps[i] = <<>> \/ comps[i] = <<".">>
    THEN NormComps(comps, i + 1, initial_slashes, new_comps)
    ELSE IF \/ comps[i] # <<".", ".">>
            \/ (initial_slashes = 0 /\ new_comps = <<>>)
            \/ (new_comps # <<>> /\ Last(new_comps) = <<".", ".">>)
    THEN NormComps(comps, i + 1, initial_slashes, Append(new_comps, comps[i]))
    ELSE IF new_comps # <<>>
    THEN NormComps(comps, i + 1, initial_slashes, SubSeq(new_comps, 1, Len(new_comps) - 1))
    ELSE NormComps(comps, i + 1, initial_slashes, new_comps)

\* "path or '.'" after the slashes are put back
Rooted(initial_slashes, joined) ==
    IF initial_slashes = 2 THEN <<"/", "/">> \o joined
    ELSE IF initial_slashes = 1 THEN <<"/">> \o joined
    ELSE IF joined = <<>> THEN <<".">>
    ELSE joined

\* os.path.normpath(path)
normpath(path) ==
    IF path = <<>> THEN <<".">>
    ELSE Rooted(InitialSlashes(path),
                JoinFrom(NormComps(SplitFrom(path, 1, <<>>), 1, InitialSlashes(path), <<>>), 1))

\* os.path.join(a, b)
join(a, b) ==
    IF b # <<>> /\ b[1] = "/" THEN b
    ELSE IF a = <<>> \/ Last(a) = "/" THEN a \o b
    ELSE a \o <<"/">> \o b

\* path.replace('\\', '/')
Replace(path) == [i \in 1..Len(path) |-> IF path[i] = "\\" THEN "/" ELSE path[i]]

\* Mutant of Prefixed: the prefix is put in front with a separator, without
\* the test for an empty prefix and without os.path.join.
PrefixedConcat(path) == prefix \o <<"/">> \o path

\* "if args.prefix: path = os.path.join(args.prefix, path)"
Prefixed(path) == IF prefix # <<>> THEN join(prefix, path) ELSE path

normalize_path(path) == Replace(Prefixed(normpath(path)))

\* str.rfind(ch): the last position (1-based) of ch in path, 0 if none.
RECURSIVE RFind(_, _, _)
RFind(path, ch, i) ==
    IF i = 0 THEN 0 ELSE IF path[i] = ch THEN i ELSE RFind(path, ch, i - 1)

\* genericpath._splitext: the extension starts at the last dot after the last
\* slash, unless only dots precede it in the file name.
ExtAt(path, sepIndex, dotIndex) ==
    IF dotIndex > sepIndex
       /\ \E k \in (sepIndex + 1)..(dotIndex - 1) : path[k] # "."
    THEN SubSeq(path, dotIndex, Len(path))
    ELSE <<>>

\* os.path.splitext(path)[1]
splitext(path) == ExtAt(path, RFind(path, "/", Len(path)), RFind(path, ".", Len(path)))

\* ---- the file system and the command line -------------------------------

\* The regular files, by normalized path, and the directories.
Files == { <<"a">>, <<"d", "/", "a">>, <<"d", "/", "s", "/", "b", ".", "x">> }
Dirs  == { <<"d">>, <<"d", "/", "s">> }

\* The file names and the sub-directory names of a directory, as listed.
FilesIn(dir) ==
    IF dir = <<"d">> THEN << <<"a">> >>
    ELSE IF dir = <<"d", "/", "s">> THEN << <<"b", ".", "x">> >>
    ELSE <<>>

DirsIn(dir) == IF dir = <<"d">> THEN << <<"s">> >> ELSE <<>>

\* What may be named on the command line: files, a second spelling of a
\* file, directories, a file below a directory that is also named, and a
\* path that does not exist.
InputNames ==
    { <<"a">>, <<".", "/", "a">>, <<"d">>, <<"d", "/", "s">>, <<"d", "/", "a">>, <<"m">> }

\* os.path.isdir(input_name)
isdir(path) == normpath(path) \in Dirs

\* open(path, 'rb').read() succeeds
CanRead(path) == normpath(path) \in readable

\* os.walk(top) with os.path.join(dirpath, file_name): the files of top, then
\* those of each sub-directory, top-down.
RECURSIVE Walk(_)
RECURSIVE WalkDirs(_, _, _)
Walk(top) ==
    [k \in 1..Len(FilesIn(normpath(top))) |-> join(top, FilesIn(normpath(top))[k])]
    \o WalkDirs(top, DirsIn(normpath(top)), 1)
WalkDirs(top, dirnames, k) ==
    IF k > Len(dirnames) THEN <<>>
    ELSE Walk(join(top, dirnames[k])) \o WalkDirs(top, dirnames, k + 1)

\* len(lz4.frame.compress(contents, store_size = True)) for n bytes that do
\* not compress: a 15-byte frame header, a 4-byte end mark and, if there is
\* data, one stored block with its 4-byte header.
Lz4FrameLen(n) == 19 + (IF n = 0 THEN 0 ELSE 4 + n)

\* tar.addfile and the two accumulators.
Entry(st, archive_path, n, stored) ==
    [tar |-> Append(st.tar, [name |-> archive_path, size |-> stored]),
     original_size |-> st.original_size + n,
     compressed_size |-> st.compressed_size + stored,
     err |-> ""]

LZ4Suffix == <<".", "l", "z", "4">>

\* process_file after the read succeeded, n being len(contents).
Stored(st, path, archive_path, n) ==
    IF compress # 0 /\ splitext(path) \notin no_compress
    THEN Entry(st, archive_path \o LZ4Suffix, n, Lz4FrameLen(n))
    ELSE Entry(st, archive_path, n, n)

\* process_file; nothing runs after sys.exit(1).
process_file(st, path) ==
    IF st.err # "" THEN st
    ELSE IF ~CanRead(path) THEN [st EXCEPT !.err = "CannotRead"]
    ELSE Stored(st, path, normalize_path(path), fsize[normpath(path)])

RECURSIVE ProcessAll(_, _, _)
ProcessAll(st, paths, k) ==
    IF k > Len(paths) THEN st
    ELSE ProcessAll(process_file(st, paths[k]), paths, k + 1)

Running ==
    [tar |-> tar, original_size |-> original_size,
     compressed_size |-> compressed_size, err |-> ""]

\* The state after one input has been handled.
Handled(st) ==
    /\ tar' = st.tar
    /\ original_size' = st.original_size
    /\ compressed_size' = st.compressed_size
    /\ terror' = st.err
    /\ tpc' = IF st.err = "" THEN "running" ELSE "exited"
    /\ status' = IF st.err = "" THEN status ELSE 1
    /\ tpos' = IF st.err = "" THEN tpos + 1 ELSE tpos
    /\ UNCHANGED <<inputs, compress, prefix, no_compress, readable, fsize,
                   mvars, nvars>>

\* An input that is not a directory: "just take one file".
TakeFile ==
    /\ tpc = "running"
    /\ tpos <= Len(inputs)
    /\ ~isdir(inputs[tpos])
    /\ Handled(process_file(Running, inputs[tpos]))

\* An input that is a directory: every file below it.
TakeDirectory ==
    /\ tpc = "running"
    /\ tpos <= Len(inputs)
    /\ isdir(inputs[tpos])
    /\ Handled(ProcessAll(Running, Walk(inputs[tpos]), 1))

\* After the loop: the size report, which divides by compressed_size, and
\* the end of the process.  An uncaught exception exits with status 1.
Report ==
    /\ tpc = "running"
    /\ tpos > Len(inputs)
    /\ tpc' = "exited"
    /\ terror' = IF compress # 0 /\ compressed_size = 0 THEN "ZeroDivisionError" ELSE ""
    /\ status' = IF compress # 0 /\ compressed_size = 0 THEN 1 ELSE 0
    /\ UNCHANGED <<inputs, compress, prefix, no_compress, readable, fsize, tar,
                   original_size, compressed_size, tpos, mvars, nvars>>

InitTar ==
    /\ IdleMerge
    /\ IdleNorm
    /\ inputs \in {<<>>} \cup SeqsUpTo(InputNames, MaxInputs)
    /\ compress \in {0, 1}
    /\ prefix \in { <<>>, <<"p">> }
    /\ no_compress \in { {}, { <<".", "x">> } }
    /\ readable \in SUBSET Files
    /\ fsize \in [Files -> {0, 5}]
    /\ tar = <<>>
    /\ original_size = 0
    /\ compressed_size = 0
    /\ tpos = 1
    /\ tpc = "running"
    /\ status = 0
    /\ terror = ""

NextTar == TakeFile \/ TakeDirectory \/ Report

SpecTar == InitTar /\ [][NextTar]_vars

\* ---- normalize_path alone ----------------------------------------------

PathChars == { "a", ".", "/", "\\" }

\* normalize_path applied to the path given, then to its own result.
Normalize ==
    /\ Len(np_out) < 2
    /\ np_out' = Append(np_out, normalize_path(IF np_out = <<>> THEN np_in ELSE np_out[1]))
    /\ UNCHANGED <<np_in, mvars, tvars>>

InitNorm ==
    /\ IdleMerge
    /\ inputs = <<>> /\ compress = 0 /\ no_compress = {}
    /\ readable = {} /\ fsize = <<>> /\ tar = <<>> /\ original_size = 0
    /\ compressed_size = 0 /\ tpos = 1 /\ tpc = "exited" /\ status = 0
    /\ terror = ""
    /\ prefix \in { <<>>, <<"p">> }
    /\ np_in \in {<<>>} \cup SeqsUpTo(PathChars, MaxPathLen)
    /\ np_out = <<>>

NextNorm == Normalize

SpecNorm == InitNorm /\ [][NextNorm]_vars

\* =====================================================================
\*                               the claims
\* =====================================================================

\* The iterations of the material loop that ran to their end.
Completed == 1..(mpos - 1)

HasDefinition(i) == materials[i] \in DOMAIN matfile

\* The definition of node i as the definitions document gives it.
DefOf(i) == matfile[materials[i]]

\* The diffuse and the specular texture index attached to a rebuilt node.
DiffuseIndex(node) ==
    IF node.pbrMetallicRoughness # <<>>
    THEN node.pbrMetallicRoughness[1].baseColorTexture
    ELSE node.KHR_materials_pbrSpecularGlossiness[1].diffuseTexture

SpecularIndex(node) ==
    IF node.pbrMetallicRoughness # <<>>
    THEN node.pbrMetallicRoughness[1].metallicRoughnessTexture
    ELSE node.KHR_materials_pbrSpecularGlossiness[1].specularGlossinessTexture

\* The base/diffuse factor of a rebuilt node.
ColorFactor(node) ==
    IF node.pbrMetallicRoughness # <<>>
    THEN node.pbrMetallicRoughness[1].baseColorFactor
    ELSE node.KHR_materials_pbrSpecularGlossiness[1].diffuseFactor

\* A DDS path with neither companion on disk.
NoCompanion(path) ==
    /\ IsDds(path)
    /\ WithExt(path, "png") \notin exists
    /\ WithExt(path, "jpg") \notin exists

\* The non-DDS image of a path, <<>> if there is none.
RegularOf(path) ==
    IF ~IsDds(path) THEN <<path>>
    ELSE IF WithExt(path, "png") \in exists THEN <<WithExt(path, "png")>>
    ELSE IF WithExt(path, "jpg") \in exists THEN <<WithExt(path, "jpg")>>
    ELSE <<>>

\* The index of a URI in the image list.
ImageIndex(uri) == FirstIndex(images, uri, 1)

\* C1: a scene material node whose name is not a key of the definitions does
\* not abort the run: the run does not end at that node, and the written
\* document keeps the node at its position with only its name field, every
\* node of the scene having been handled.
C1_MissingDefinitionPassthrough ==
    \A i \in 1..Len(materials) :
        ~HasDefinition(i) =>
            /\ ~(mpc = "aborted" /\ mpos = i)
            /\ mpc = "done" =>
                  /\ Len(out[1].materials) = Len(materials)
                  /\ DOMAIN out[1].materials[i] = {"name"}
                  /\ out[1].materials[i].name = materials[i]

\* C2: when add_texture is called for a DDS path that has neither a PNG nor
\* a JPEG companion, the call returns the index of a texture entry without a
\* primary source, and every later add_texture call of the run returns an
\* index too instead of ending the run.
C2_MissingCompanionNonFatal ==
    \A k \in 1..Len(calls) :
        NoCompanion(calls[k].path) =>
            /\ calls[k].err = ""
            /\ textures[calls[k].index[1] + 1].source = <<>>
            /\ \A j \in k..Len(calls) : calls[j].err = ""

\* C3: starting from empty texture and image lists, no two texture entries
\* reference the same (regular, DDS) image-index pair; two distinct nodes
\* whose definitions give the same diffuse texture path and that both got a
\* diffuse texture index got the same one; and the calls for one path
\* appended at most one texture entry.
C3_TextureDedup ==
    /\ \A i, j \in 1..Len(textures) :
           i # j => <<textures[i].source, textures[i].dds>>
                      # <<textures[j].source, textures[j].dds>>
    /\ \A i, j \in 1..Len(newmatlist) :
           ( /\ i # j
             /\ DefOf(i).Textures.Diffuse # <<>>
             /\ DefOf(i).Textures.Diffuse = DefOf(j).Textures.Diffuse
             /\ DiffuseIndex(newmatlist[i]) # <<>>
             /\ DiffuseIndex(newmatlist[j]) # <<>> )
           => DiffuseIndex(newmatlist[i]) = DiffuseIndex(newmatlist[j])
    /\ \A k, j \in 1..Len(calls) :
           (calls[k].path = calls[j].path /\ calls[k].appended /\ calls[j].appended)
           => k = j

\* C3, witness: the run is done, two distinct nodes with the same diffuse
\* texture path share one texture index, and the texture list has one entry.
C3_Witness ==
    /\ mpc = "done"
    /\ Len(textures) = 1
    /\ \E i, j \in 1..Len(newmatlist) :
           /\ i # j
           /\ DefOf(i).Textures.Diffuse # <<>>
           /\ DefOf(i).Textures.Diffuse = DefOf(j).Textures.Diffuse
           /\ DiffuseIndex(newmatlist[i]) = <<0>>
           /\ DiffuseIndex(newmatlist[j]) = <<0>>

\* C4: the texture entry at the index add_texture returned for a path has
\* the path's non-DDS image as its primary source (none if there is none)
\* and carries a DDS block exactly when the path is a DDS path, the block's
\* source being the image registered for that path; so an entry is reused
\* only for the same (regular, DDS) pair.
C4_TextureResolution ==
    \A k \in 1..Len(calls) :
        calls[k].err = "" =>
            LET path == calls[k].path
                t    == textures[calls[k].index[1] + 1]
            IN  /\ t.source = IF RegularOf(path) = <<>> THEN <<>>
                              ELSE <<ImageIndex(RegularOf(path)[1])>>
                /\ IsDds(path) <=> t.dds # <<>>
                /\ IsDds(path) => t.dds = <<ImageIndex(path)>>

\* C5: a node that has a definition, to which no diffuse texture was
\* attached and whose definition gives a 3-component diffuse colour, has as
\* its base/diffuse factor that colour followed by the opacity (1.0 when
\* absent), whatever nodes came before it.
C5_DiffuseFallback ==
    \A i \in Completed :
        ( /\ HasDefinition(i)
          /\ DiffuseIndex(newmatlist[i]) = <<>>
          /\ Len(DefOf(i).Diffuse) = 3 )
        => ColorFactor(newmatlist[i])
             = << Append(DefOf(i).Diffuse,
                         IF DefOf(i).Opacity = <<>> THEN 1 ELSE DefOf(i).Opacity[1]) >>

\* C6: in metallic-roughness mode, a node that has a definition, no specular
\* texture attached and a 3-component specular colour has as its metallic
\* factor the average over the three channels of specular/(specular+diffuse)
\* of its own definition (where that average is defined), with or without a
\* diffuse texture.
C6_MetallicOwnDefinition ==
    ~spec_gloss =>
        \A i \in Completed :
            ( /\ HasDefinition(i)
              /\ SpecularIndex(newmatlist[i]) = <<>>
              /\ Len(DefOf(i).Specular) = 3
              /\ MetallicOf(DefOf(i).Specular, DefOf(i).Diffuse).err = "" )
            => newmatlist[i].pbrMetallicRoughness[1].metallicFactor
                 = MetallicOf(DefOf(i).Specular, DefOf(i).Diffuse).value

\* C7: the worked example.  With the one definition M1 = {AlphaTested: true,
\* Diffuse: [1,0,0], Specular: [0,0,0], Shininess: 0.5}, no textures, and the
\* one scene node M1, the metallic-roughness run completes and the output
\* node has alphaMode MASK, doubleSided true, baseColorFactor [1,0,0,1] and
\* roughnessFactor 0.5.
C7_WorkedExample ==
    ( /\ materials = <<"M1">>
      /\ DOMAIN matfile = {"M1"}
      /\ matfile["M1"] =
           [AlphaTested |-> TRUE, Transparent |-> FALSE, Emittance |-> <<>>,
            Textures |-> [Emittance |-> <<>>, Bumpmap |-> <<>>, Diffuse |-> <<>>,
                          Specular |-> <<>>],
            Diffuse |-> <<1, 0, 0>>, Specular |-> <<0, 0, 0>>,
            Shininess |-> <<1, 2>>, Opacity |-> <<>>]
      /\ ~spec_gloss
      /\ mpc # "running" )
    => /\ mpc = "done"
       /\ out[1].materials[1].alphaMode = <<"MASK">>
       /\ out[1].materials[1].doubleSided = <<TRUE>>
       /\ out[1].materials[1].pbrMetallicRoughness[1].baseColorFactor = << <<1, 0, 0, 1>> >>
       /\ out[1].materials[1].pbrMetallicRoughness[1].roughnessFactor = << <<1, 2>> >>

\* Every path the run hands to process_file if no read fails.
RECURSIVE Expanded(_)
Expanded(k) ==
    IF k > Len(inputs) THEN <<>>
    ELSE (IF isdir(inputs[k]) THEN Walk(inputs[k]) ELSE <<inputs[k]>>) \o Expanded(k + 1)

\* C8: a run exits with status 1 when some input file cannot be read and
\* with status 0 in every other run.
C8_ExitStatus ==
    tpc = "exited" =>
        (status = 1 <=> \E k \in 1..Len(Expanded(1)) : ~CanRead(Expanded(1)[k]))
        /\ status \in {0, 1}

\* C9: no two entries written to the archive have the same archive path.
C9_UniqueArchivePaths ==
    \A i, j \in 1..Len(tar) : i # j => tar[i].name # tar[j].name

\* C10, as stated: normalize_path(normalize_path(p)) = normalize_path(p) for
\* every path p and every prefix.
C10_Idempotent ==
    Len(np_out) = 2 => np_out[2] = np_out[1]

\* C10, amended: with the empty prefix, and for a path p that holds no
\* backslash, normalize_path(normalize_path(p)) = normalize_path(p).
C10_IdempotentNoPrefix ==
    ( /\ Len(np_out) = 2
      /\ prefix = <<>>
      /\ \A k \in 1..Len(np_in) : np_in[k] # "\\" )
    => np_out[2] = np_out[1]

\* C10, witness: with the empty prefix, a path without backslash that the
\* first normalization changed has been normalized twice.
C10_Witness ==
    /\ Len(np_out) = 2
    /\ prefix = <<>>
    /\ \A k \in 1..Len(np_in) : np_in[k] # "\\"
    /\ np_out[1] # np_in
    /\ np_out[2] = np_out[1]

====
